---- MODULE Spec2Model ----
\* Model of streamlit_app.py (Spell Recorder): identity sanitization, the
\* audio normalization pipeline, the lazily built GridFS handle and the
\* submit handler of main().
\*
\* Text is a sequence of one-character strings.  Optional[T] is a sequence of
\* length 0 (None) or 1 (the value).  Audio samples are fixed-point numbers:
\* the integer ONE stands for the float 1.0.
EXTENDS Integers, Sequences, FiniteSets, TLC

VARIABLES
    name, sanitized,                      \* sanitize_username: argument, return value
    n_pc, n_sr, n_decoded, n_mono, n_resampled, n_poly, n_clipped, n_pcm16, n_wav,
                                          \* the normalization steps of save_audio_to_mongo
    MONGO_URI, MONGO_DB,                  \* configuration read at import time
    mongo_client, mongo_fs,               \* the module globals _mongo_client, _mongo_fs
    clients_made, n_stored,               \* MongoClient(...) constructions; objects the store accepted
    username, audio_files,                \* widget values: the text input, the recorded spells
    pc, idx, user, saved, skipped,        \* position and locals of the submit handler
    report,                               \* what the page shows after the click
    attempts, put_calls, trail,           \* per spell, this submission: save_audio_to_mongo calls,
                                          \* fs.put calls, pipeline stages completed
    last_put, last_src                    \* the latest fs.put call and the decoded input it came from

sanVars  == <<name, sanitized>>
normVars == <<n_pc, n_sr, n_decoded, n_mono, n_resampled, n_poly, n_clipped, n_pcm16, n_wav>>
cfgVars  == <<MONGO_URI, MONGO_DB>>
dbVars   == <<mongo_client, mongo_fs, clients_made, n_stored>>
uiVars   == <<username, audio_files>>
runVars  == <<pc, idx, user, saved, skipped, report, attempts, put_calls, trail, last_put, last_src>>
appVars  == <<cfgVars, dbVars, uiVars, runVars>>
vars     == <<sanVars, normVars, appVars>>

-----------------------------------------------------------------------------
\* Program constants

TARGET_SR == 16000
SPELLS == <<"Lumos", "Nox", "Alohomora", "Wingardium Leviosa", "Accio", "Reparo">>
INT16_SCALE == 32767

\* Bounds of the model
MaxNameLen  == 3     \* longest enumerated identity text
MaxChannels == 2     \* most channels in a decoded recording
MaxFrames   == 2     \* most frames in a decoded recording
MaxAmp      == 3     \* largest input amplitude, in halves of full scale
MaxProvided == 2     \* most spells recorded at once
MaxClients  == 2     \* MongoClient constructions before construction fails for good
MaxStored   == 2     \* objects the store accepts before put fails for good

None == <<>>
Some(x) == <<x>>
SpellSet == {SPELLS[i] : i \in 1..Len(SPELLS)}

RECURSIVE Fact(_)
Fact(n) == IF n <= 1 THEN 1 ELSE n * Fact(n - 1)

\* Fixed point: HALF (0.5) is divisible by every channel count, so the channel
\* mean of the enumerated inputs is exact.
HALF == Fact(MaxChannels)
ONE  == 2 * HALF

-----------------------------------------------------------------------------
\* Text helpers (str.strip, re.sub, str.lower)

LOWER == <<"a","b","c","d","e","f","g","h","i","j","k","l","m",
           "n","o","p","q","r","s","t","u","v","w","x","y","z">>
UPPER == <<"A","B","C","D","E","F","G","H","I","J","K","L","M",
           "N","O","P","Q","R","S","T","U","V","W","X","Y","Z">>
DIGITS == {"0","1","2","3","4","5","6","7","8","9"}

IsSpace(c) == c \in {" ", "\t", "\n", "\r", "\f"}

RECURSIVE lstrip(_)
lstrip(s) == IF s # <<>> /\ IsSpace(Head(s)) THEN lstrip(Tail(s)) ELSE s

RECURSIVE rstrip(_)
rstrip(s) ==
    IF s # <<>> /\ IsSpace(s[Len(s)]) THEN rstrip(SubSeq(s, 1, Len(s) - 1)) ELSE s

strip(s) == rstrip(lstrip(s))

\* re.sub(r"\s+", "_", s): every maximal run of whitespace becomes one "_"
RECURSIVE sub_whitespace(_)
sub_whitespace(s) ==
    IF s = <<>> THEN <<>>
    ELSE IF IsSpace(Head(s)) THEN <<"_">> \o sub_whitespace(lstrip(Tail(s)))
    ELSE <<Head(s)>> \o sub_whitespace(Tail(s))

InClass(c) ==
    \/ \E i \in 1..26 : c = LOWER[i] \/ c = UPPER[i]
    \/ c \in DIGITS
    \/ c \in {"_", "-"}

\* re.sub(r"[^a-zA-Z0-9_-]", "", s)
sub_disallowed(s) == SelectSeq(s, InClass)

lower_char(c) ==
    IF \E i \in 1..26 : c = UPPER[i]
    THEN LOWER[CHOOSE i \in 1..26 : c = UPPER[i]]
    ELSE c

lower(s) == [i \in 1..Len(s) |-> lower_char(s[i])]

ANON == <<"a","n","o","n">>

\* Mutant of sanitize_username: the final .lower() is forgotten.
sanitize_username_nolower(nm) ==
    IF nm = None \/ nm[1] = <<>> THEN ANON
    ELSE LET a == sub_whitespace(strip(nm[1]))
             b == sub_disallowed(a)
         IN  IF b = <<>> THEN ANON ELSE b

sanitize_username(nm) ==
    IF nm = None \/ nm[1] = <<>> THEN ANON
    ELSE LET a == sub_whitespace(strip(nm[1]))
             b == sub_disallowed(a)
             c == lower(b)
         IN  IF c = <<>> THEN ANON ELSE c

-----------------------------------------------------------------------------
\* Inputs of the sanitizer

NameChars == {"a", "B", "7", "_", "-", "!", " ", "\t"}

RECURSIVE TextsUpTo(_)
TextsUpTo(n) ==
    IF n = 0 THEN {<<>>}
    ELSE LET shorter == TextsUpTo(n - 1)
         IN  shorter \cup {Append(t, c) : t \in shorter, c \in NameChars}

HarryPotter == <<"H","a","r","r","y"," ","P","o","t","t","e","r">>
harry_potter == <<"h","a","r","r","y","_","p","o","t","t","e","r">>
ABangBC == <<"a","!","!","b"," "," ","c">>
ab_c == <<"a","b","_","c">>

NameInputs ==
    {None} \cup {Some(t) : t \in TextsUpTo(MaxNameLen) \cup {HarryPotter, ABangBC}}

-----------------------------------------------------------------------------
\* numpy arrays: [ndim, dtype, data].  data is a sequence of samples (ndim 1)
\* or a sequence of frames, each a sequence of channel samples (ndim 2), the
\* layout sf.read(..., always_2d=False) returns.

Array1(dt, xs) == [ndim |-> 1, dtype |-> dt, data |-> xs]
Array2(dt, rows) == [ndim |-> 2, dtype |-> dt, data |-> rows]

\* audio.size
Size(a) ==
    IF a.ndim = 1 THEN Len(a.data)
    ELSE IF a.data = <<>> THEN 0 ELSE Len(a.data) * Len(a.data[1])

RECURSIVE SumSeq(_)
SumSeq(xs) == IF xs = <<>> THEN 0 ELSE Head(xs) + SumSeq(Tail(xs))

\* Division rounding toward zero
TruncDiv(a, b) == IF a >= 0 THEN a \div b ELSE -((-a) \div b)

\* Mutant of to_mono: the channels are not reduced.
to_mono_noreduce(audio) == audio

to_mono(audio) ==
    IF audio.ndim = 2
    THEN Array1(audio.dtype,
                [i \in 1..Len(audio.data) |->
                    TruncDiv(SumSeq(audio.data[i]), Len(audio.data[i]))])
    ELSE audio

\* math.gcd
RECURSIVE gcd(_, _)
gcd(a, b) == IF b = 0 THEN a ELSE gcd(b, a % b)

CeilDiv(a, b) == (a + b - 1) \div b

\* scipy.signal.resample_poly along axis 0, by its contract: the output has
\* ceil(len * up / down) frames.  Output frame j is taken from the input frame
\* under it; `ripple` is the filter's overshoot, with alternating sign.
resample_poly(x, up, down, ripple) ==
    LET n == Len(x.data)
        m == CeilDiv(n * up, down)
        r(j) == IF j % 2 = 1 THEN ripple ELSE -ripple
        at(j) == x.data[(((j - 1) * down) \div up) + 1]
    IN  [x EXCEPT !.data =
            [j \in 1..m |->
                IF x.ndim = 1 THEN at(j) + r(j)
                ELSE [k \in 1..Len(at(j)) |-> at(j)[k] + r(j)]]]

\* Mutant of resample_to_target: the two factors are exchanged.
resample_to_target_swapped(audio, sr, target_sr, ripple) ==
    IF sr = target_sr THEN [out |-> audio, poly |-> None]
    ELSE LET g == gcd(sr, target_sr)
             up == sr \div g
             down == target_sr \div g
         IN  [out |-> resample_poly(audio, up, down, ripple),
              poly |-> Some([up |-> up, down |-> down])]

\* Returns the resampled audio and, in poly, the resample_poly call it made.
resample_to_target(audio, sr, target_sr, ripple) ==
    IF sr = target_sr THEN [out |-> audio, poly |-> None]
    ELSE LET g == gcd(sr, target_sr)
             up == target_sr \div g
             down == sr \div g
         IN  [out |-> resample_poly(audio, up, down, ripple),
              poly |-> Some([up |-> up, down |-> down])]

Clamp(v) == IF v < -ONE THEN -ONE ELSE IF v > ONE THEN ONE ELSE v

\* Mutant of clip: the clamp is left out.
clip_missing(audio) == audio

\* np.clip(audio, -1.0, 1.0)
clip(audio) ==
    [audio EXCEPT !.data =
        IF audio.ndim = 1
        THEN [i \in 1..Len(audio.data) |-> Clamp(audio.data[i])]
        ELSE [i \in 1..Len(audio.data) |->
                 [k \in 1..Len(audio.data[i]) |-> Clamp(audio.data[i][k])]]]

\* A C conversion to a 16-bit integer keeps the low 16 bits.
WrapInt16(q) == ((q + 32768) % 65536) - 32768

Quantize(v) == WrapInt16(TruncDiv(v * INT16_SCALE, ONE))

\* (audio * 32767.0).astype(np.int16)
to_pcm16(audio) ==
    [audio EXCEPT
        !.dtype = "int16",
        !.data =
            IF audio.ndim = 1
            THEN [i \in 1..Len(audio.data) |-> Quantize(audio.data[i])]
            ELSE [i \in 1..Len(audio.data) |->
                     [k \in 1..Len(audio.data[i]) |-> Quantize(audio.data[i][k])]]]

\* scipy.io.wavfile.write(buf, rate, data): the header fields follow the array
wav_write(rate, arr) ==
    [container |-> "RIFF/WAVE",
     fmt       |-> IF arr.dtype = "int16" THEN "PCM" ELSE "IEEE_FLOAT",
     bits      |-> IF arr.dtype = "int16" THEN 16 ELSE 32,
     channels  |-> IF arr.ndim = 1 THEN 1 ELSE Len(arr.data[1]),
     rate      |-> rate,
     frames    |-> arr.data]

-----------------------------------------------------------------------------
\* Decoded recordings

Levels == {-MaxAmp * HALF, HALF, MaxAmp * HALF}
Rates == {4000, 8000, 11025, 12000, 16000, 22050, 32000, 44100, 48000, 96000}
Ripples == {-HALF, 0, HALF}

RECURSIVE SeqsOfLen(_, _)
SeqsOfLen(S, n) ==
    IF n = 0 THEN {<<>>}
    ELSE {Append(t, x) : t \in SeqsOfLen(S, n - 1), x \in S}

\* What sf.read returns for a file of nch channels and nfr frames
DecodedAudio(nch, nfr) ==
    IF nch = 1
    THEN {Array1("float32", xs) : xs \in SeqsOfLen(Levels, nfr)}
    ELSE {Array2("float32", rows) : rows \in SeqsOfLen(SeqsOfLen(Levels, nch), nfr)}

NormInputs ==
    UNION {DecodedAudio(nch, nfr) : nch \in 1..MaxChannels, nfr \in 1..MaxFrames}

-----------------------------------------------------------------------------
\* Values the variables of the other specifications rest at

SanIdle  == name = None /\ sanitized = None
NormIdle ==
    /\ n_pc = "off" /\ n_sr = 0
    /\ n_decoded = None /\ n_mono = None /\ n_resampled = None /\ n_poly = None
    /\ n_clipped = None /\ n_pcm16 = None /\ n_wav = None

-----------------------------------------------------------------------------
\* SanSpec: sanitize_username applied to each enumerated argument

CallSanitize ==
    /\ sanitized = None
    /\ sanitized' = Some(sanitize_username(name))
    /\ UNCHANGED <<name, normVars, appVars>>

-----------------------------------------------------------------------------
\* NormSpec: the normalization steps of save_audio_to_mongo, one statement at
\* a time, on each enumerated decoded recording

StepToMono ==
    /\ n_pc = "decoded"
    /\ n_mono' = Some(to_mono(n_decoded[1]))
    /\ n_pc' = "mono"
    /\ UNCHANGED <<n_sr, n_decoded, n_resampled, n_poly, n_clipped, n_pcm16, n_wav>>
    /\ UNCHANGED <<sanVars, appVars>>

StepResample ==
    /\ n_pc = "mono"
    /\ \E ripple \in Ripples :
          LET r == resample_to_target(n_mono[1], n_sr, TARGET_SR, ripple)
          IN  /\ n_resampled' = Some(r.out)
              /\ n_poly' = r.poly
    /\ n_pc' = "resampled"
    /\ UNCHANGED <<n_sr, n_decoded, n_mono, n_clipped, n_pcm16, n_wav>>
    /\ UNCHANGED <<sanVars, appVars>>

StepClip ==
    /\ n_pc = "resampled"
    /\ n_clipped' = Some(clip(n_resampled[1]))
    /\ n_pc' = "clipped"
    /\ UNCHANGED <<n_sr, n_decoded, n_mono, n_resampled, n_poly, n_pcm16, n_wav>>
    /\ UNCHANGED <<sanVars, appVars>>

StepQuantize ==
    /\ n_pc = "clipped"
    /\ n_pcm16' = Some(to_pcm16(n_clipped[1]))
    /\ n_pc' = "pcm16"
    /\ UNCHANGED <<n_sr, n_decoded, n_mono, n_resampled, n_poly, n_clipped, n_wav>>
    /\ UNCHANGED <<sanVars, appVars>>

StepEncode ==
    /\ n_pc = "pcm16"
    /\ n_wav' = Some(wav_write(TARGET_SR, n_pcm16[1]))
    /\ n_pc' = "wav"
    /\ UNCHANGED <<n_sr, n_decoded, n_mono, n_resampled, n_poly, n_clipped, n_pcm16>>
    /\ UNCHANGED <<sanVars, appVars>>

-----------------------------------------------------------------------------
\* The store handle: get_gridfs.  A client or handle is named by the number of
\* the MongoClient construction that made it.

CONFIGURED_URI == "mongodb://db.example/"

\* The result of a call: the value returned, whether it raised, and the
\* globals it leaves behind.
GridfsResult(ret, raised, client, fs, made) ==
    [ret |-> ret, raised |-> raised, client |-> client, fs |-> fs, made |-> made]

\* Mutant of get_gridfs: the empty connection string is not checked.
get_gridfs_nouricheck(client_ok) ==
    IF mongo_fs # None
    THEN GridfsResult(mongo_fs, FALSE, mongo_client, mongo_fs, clients_made)
    ELSE IF ~client_ok
    THEN GridfsResult(None, TRUE, mongo_client, mongo_fs, clients_made)
    ELSE LET k == clients_made + 1
         IN  IF MONGO_DB = ""
             THEN GridfsResult(None, TRUE, Some(k), mongo_fs, k)
             ELSE GridfsResult(Some(k), FALSE, Some(k), Some(k), k)

\* client_ok: whether MongoClient(MONGO_URI) returns (it raises on a name it
\* cannot resolve).  _mongo_client[MONGO_DB] raises InvalidName on an empty
\* database name, after _mongo_client has been assigned.
get_gridfs(client_ok) ==
    IF MONGO_URI = ""
    THEN GridfsResult(None, FALSE, mongo_client, mongo_fs, clients_made)
    ELSE IF mongo_fs # None
    THEN GridfsResult(mongo_fs, FALSE, mongo_client, mongo_fs, clients_made)
    ELSE IF ~client_ok
    THEN GridfsResult(None, TRUE, mongo_client, mongo_fs, clients_made)
    ELSE LET k == clients_made + 1
         IN  IF MONGO_DB = ""
             THEN GridfsResult(None, TRUE, Some(k), mongo_fs, k)
             ELSE GridfsResult(Some(k), FALSE, Some(k), Some(k), k)

-----------------------------------------------------------------------------
\* save_audio_to_mongo

\* re.sub(r"[^a-zA-Z0-9]+", "_", spell).strip("_").lower(), on the six spells
spell_slug(spell) ==
    CASE spell = "Lumos" -> "lumos"
      [] spell = "Nox" -> "nox"
      [] spell = "Alohomora" -> "alohomora"
      [] spell = "Wingardium Leviosa" -> "wingardium_leviosa"
      [] spell = "Accio" -> "accio"
      [] spell = "Reparo" -> "reparo"

\* The result of a call: ret is the returned id (None when nothing was saved),
\* raised says an exception left the function, trail lists the stages that
\* completed, put is the fs.put call made (None when none was), g the globals
\* and stored the store's object count afterwards.
SaveResult(ret, raised, trail_, put, g, stored) ==
    [ret |-> ret, raised |-> raised, trail |-> trail_, put |-> put,
     client |-> g.client, fs |-> g.fs, made |-> g.made, stored |-> stored]

Globals == [client |-> mongo_client, fs |-> mongo_fs, made |-> clients_made]

\* The try block.  dec is what sf.read does with the bytes: it raises
\* (dec.ok false) or returns (dec.audio, dec.sr).  env holds the outcomes the
\* surroundings decide: norm_ok (no numpy or scipy call raises), client_ok,
\* put_ok, the clock reading ts, the resampler's ripple.
save_audio_try(dec, spell, usr, env) ==
    IF ~dec.ok THEN SaveResult(None, TRUE, <<>>, None, Globals, n_stored)
    ELSE IF Size(dec.audio) = 0
    THEN SaveResult(None, FALSE, <<"decode">>, None, Globals, n_stored)
    ELSE IF ~env.norm_ok
    THEN SaveResult(None, TRUE, <<"decode">>, None, Globals, n_stored)
    ELSE
    LET mono == to_mono(dec.audio)
        res == resample_to_target(mono, dec.sr, TARGET_SR, env.ripple).out
        clipped == clip(res)
        pcm16 == to_pcm16(clipped)
        wav_bytes == wav_write(TARGET_SR, pcm16)
        encoded == <<"decode", "normalize", "encode">>
        h == get_gridfs(env.client_ok)
        after == [client |-> h.client, fs |-> h.fs, made |-> h.made]
        ts == env.ts
        filename == <<spell_slug(spell), usr, ts, ".wav">>
        metadata == [username |-> usr, spell |-> spell, timestamp_ms |-> ts,
                     sample_rate |-> TARGET_SR, format |-> "wav"]
        call == [data |-> wav_bytes, filename |-> filename,
                 contentType |-> "audio/wav", metadata |-> metadata]
    IN  IF h.raised THEN SaveResult(None, TRUE, encoded, None, after, n_stored)
        ELSE IF h.ret = None THEN SaveResult(None, FALSE, encoded, None, after, n_stored)
        ELSE IF ~env.put_ok
        THEN SaveResult(None, TRUE, Append(encoded, "store"), Some(call), after, n_stored)
        ELSE SaveResult(Some(n_stored + 1), FALSE,
                        encoded \o <<"store", "put">>, Some(call), after, n_stored + 1)

\* Mutant of save_audio_to_mongo: no except clause, the exception escapes.
save_audio_to_mongo_nocatch(dec, spell, usr, env) ==
    save_audio_try(dec, spell, usr, env)

\* except Exception: st.error(...); return None
save_audio_to_mongo(dec, spell, usr, env) ==
    LET r == save_audio_try(dec, spell, usr, env)
    IN  IF r.raised THEN [r EXCEPT !.raised = FALSE, !.ret = None] ELSE r

-----------------------------------------------------------------------------
\* main(): the widgets and the submit handler

Usernames == {<<>>, <<" ">>, <<"R","o","n">>, <<"!">>}
\* int(time.time() * 1000): no statement branches on the clock, one reading is enumerated
Times == {1000}

\* What sf.read makes of a recording: an error, no samples, or one loud frame
\* for each channel count at the target rate and at another rate
NoAudio == Array1("float32", <<>>)
Loud(nch) ==
    IF nch = 1 THEN Array1("float32", <<MaxAmp * HALF>>)
    ELSE Array2("float32", <<[k \in 1..nch |-> MaxAmp * HALF]>>)
Readings ==
    {[ok |-> FALSE, audio |-> NoAudio, sr |-> 0],
     [ok |-> TRUE, audio |-> NoAudio, sr |-> TARGET_SR]}
    \cup {[ok |-> TRUE, audio |-> Loud(nch), sr |-> r] :
             nch \in 1..MaxChannels, r \in {TARGET_SR, 44100}}
NoReading == [ok |-> FALSE, audio |-> NoAudio, sr |-> 0]

\* The surroundings of one save_audio_to_mongo call.  Construction and put
\* fail for good once the model's caps are reached.
Envs ==
    [norm_ok   : BOOLEAN,
     client_ok : IF clients_made < MaxClients THEN BOOLEAN ELSE {FALSE},
     put_ok    : IF n_stored < MaxStored THEN BOOLEAN ELSE {FALSE},
     ts        : Times,
     ripple    : {0}]
NoEnv == [norm_ok |-> FALSE, client_ok |-> FALSE, put_ok |-> FALSE, ts |-> 1000, ripple |-> 0]

NoReport == [kind |-> "none", saved |-> <<>>, skipped |-> <<>>, total |-> 0]
ZeroCounts == [s \in SpellSet |-> 0]
NoTrails == [s \in SpellSet |-> <<>>]

\* A script run starts: nothing of the previous run's page or calls is left
FreshRun ==
    /\ attempts' = ZeroCounts
    /\ put_calls' = ZeroCounts
    /\ trail' = NoTrails
    /\ last_put' = None
    /\ last_src' = None

\* Any widget change reruns the script with the button not clicked
Rerun ==
    /\ FreshRun
    /\ report' = NoReport
    /\ user' = None
    /\ saved' = <<>>
    /\ skipped' = <<>>
    /\ UNCHANGED <<pc, idx>>

TypeUsername ==
    /\ pc = "idle"
    /\ \E u \in Usernames : username' = u
    /\ Rerun
    /\ UNCHANGED <<audio_files, cfgVars, dbVars, sanVars, normVars>>

Record ==
    /\ pc = "idle"
    /\ Cardinality(audio_files) < MaxProvided
    /\ \E s \in SpellSet \ audio_files : audio_files' = audio_files \cup {s}
    /\ Rerun
    /\ UNCHANGED <<username, cfgVars, dbVars, sanVars, normVars>>

Discard ==
    /\ pc = "idle"
    /\ \E s \in audio_files : audio_files' = audio_files \ {s}
    /\ Rerun
    /\ UNCHANGED <<username, cfgVars, dbVars, sanVars, normVars>>

\* Mutant of submit_check: the count of recordings is not looked at.
submit_check_nocount(uname, selected_count) ==
    IF strip(uname) = <<>> THEN "name_error" ELSE "accept"

\* The if / elif / else under the button
submit_check(uname, selected_count) ==
    IF strip(uname) = <<>> THEN "name_error"
    ELSE IF selected_count = 0 THEN "empty_error"
    ELSE "accept"

ClickSubmit ==
    /\ pc = "idle"
    /\ LET verdict == submit_check(username, Cardinality(audio_files))
       IN  IF verdict = "accept"
           THEN /\ user' = Some(sanitize_username(Some(username)))
                /\ pc' = "loop"
                /\ idx' = 1
                /\ report' = NoReport
           ELSE /\ user' = None
                /\ pc' = "idle"
                /\ idx' = idx
                /\ report' = [NoReport EXCEPT !.kind = verdict]
    /\ saved' = <<>>
    /\ skipped' = <<>>
    /\ FreshRun
    /\ UNCHANGED <<uiVars, cfgVars, dbVars, sanVars, normVars>>

NoCall == SaveResult(None, FALSE, <<>>, None, Globals, n_stored)

LoopResult(r, calls, sv, sk) ==
    [r |-> r, calls |-> calls, puts |-> IF r.put = None THEN 0 ELSE calls,
     saved |-> sv, skipped |-> sk]

\* Mutant of process_label: a recording that was not saved is tried again.
process_label_retry(spell, dec, env) ==
    IF spell \in audio_files
    THEN LET r == save_audio_to_mongo(dec, spell, user[1], env)
         IN  IF r.ret # None
             THEN LoopResult(r, 1, Append(saved, <<spell, r.ret[1]>>), skipped)
             ELSE LoopResult(r, 2, saved, Append(skipped, spell))
    ELSE LoopResult(NoCall, 0, saved, Append(skipped, spell))

\* Mutant of process_label: a spell without a recording is not listed.
process_label_dropabsent(spell, dec, env) ==
    IF spell \in audio_files
    THEN LET r == save_audio_to_mongo(dec, spell, user[1], env)
         IN  IF r.ret # None
             THEN LoopResult(r, 1, Append(saved, <<spell, r.ret[1]>>), skipped)
             ELSE LoopResult(r, 1, saved, Append(skipped, spell))
    ELSE LoopResult(NoCall, 0, saved, skipped)

\* The body of the loop over SPELLS
process_label(spell, dec, env) ==
    IF spell \in audio_files
    THEN LET r == save_audio_to_mongo(dec, spell, user[1], env)
         IN  IF r.ret # None
             THEN LoopResult(r, 1, Append(saved, <<spell, r.ret[1]>>), skipped)
             ELSE LoopResult(r, 1, saved, Append(skipped, spell))
    ELSE LoopResult(NoCall, 0, saved, Append(skipped, spell))

ProcessLabel ==
    /\ pc = "loop"
    /\ LET spell == SPELLS[idx]
           present == spell \in audio_files
       IN  \E dec \in (IF present THEN Readings ELSE {NoReading}),
              env \in (IF present THEN Envs ELSE {NoEnv}) :
              LET b == process_label(spell, dec, env)
              IN  /\ saved' = b.saved
                  /\ skipped' = b.skipped
                  /\ mongo_client' = b.r.client
                  /\ mongo_fs' = b.r.fs
                  /\ clients_made' = b.r.made
                  /\ n_stored' = b.r.stored
                  /\ attempts' = [attempts EXCEPT ![spell] = @ + b.calls]
                  /\ put_calls' = [put_calls EXCEPT ![spell] = @ + b.puts]
                  /\ trail' = [trail EXCEPT ![spell] = b.r.trail]
                  /\ last_put' = b.r.put
                  /\ last_src' = IF b.r.put = None THEN None
                                 ELSE Some([channels |-> IF dec.audio.ndim = 1 THEN 1
                                                         ELSE Len(dec.audio.data[1]),
                                            sr |-> dec.sr])
                  /\ IF b.r.raised THEN pc' = "crashed" /\ idx' = idx
                     ELSE IF idx = Len(SPELLS) THEN pc' = "report" /\ idx' = idx
                     ELSE pc' = "loop" /\ idx' = idx + 1
    /\ UNCHANGED <<user, report, uiVars, cfgVars, sanVars, normVars>>

\* The success list, the expander of skipped spells and the total
DisplayResults ==
    /\ pc = "report"
    /\ report' = [kind |-> "done", saved |-> saved, skipped |-> skipped,
                  total |-> Len(saved)]
    /\ pc' = "idle"
    /\ UNCHANGED <<idx, user, saved, skipped, attempts, put_calls, trail,
                   last_put, last_src>>
    /\ UNCHANGED <<uiVars, cfgVars, dbVars, sanVars, normVars>>

-----------------------------------------------------------------------------
\* Specifications

AppIdle ==
    /\ mongo_client = None /\ mongo_fs = None /\ clients_made = 0 /\ n_stored = 0
    /\ username = <<>> /\ audio_files = {}
    /\ pc = "idle" /\ idx = 1 /\ user = None /\ saved = <<>> /\ skipped = <<>>
    /\ report = NoReport
    /\ attempts = ZeroCounts /\ put_calls = ZeroCounts /\ trail = NoTrails
    /\ last_put = None /\ last_src = None

\* The application after import: configuration read, nothing connected
Init ==
    /\ MONGO_URI \in {"", CONFIGURED_URI}
    /\ MONGO_DB \in {"spells", ""}
    /\ AppIdle
    /\ SanIdle
    /\ NormIdle

Next ==
    \/ TypeUsername
    \/ Record
    \/ Discard
    \/ ClickSubmit
    \/ ProcessLabel
    \/ DisplayResults

Spec == Init /\ [][Next]_vars

\* The handler runs to its end once started: the loop and the report are
\* straight-line synchronous code
FairSpec == Spec /\ WF_vars(ProcessLabel) /\ WF_vars(DisplayResults)

SanInit ==
    /\ name \in NameInputs
    /\ sanitized = None
    /\ NormIdle
    /\ MONGO_URI = "" /\ MONGO_DB = "spells"
    /\ AppIdle

SanNext == CallSanitize

SanSpec == SanInit /\ [][SanNext]_vars

NormInit ==
    /\ n_pc = "decoded"
    /\ n_decoded \in {Some(a) : a \in NormInputs}
    /\ n_sr \in Rates
    /\ n_mono = None /\ n_resampled = None /\ n_poly = None
    /\ n_clipped = None /\ n_pcm16 = None /\ n_wav = None
    /\ SanIdle
    /\ MONGO_URI = "" /\ MONGO_DB = "spells"
    /\ AppIdle

NormNext ==
    \/ StepToMono
    \/ StepResample
    \/ StepClip
    \/ StepQuantize
    \/ StepEncode

NormSpec == NormInit /\ [][NormNext]_vars

-----------------------------------------------------------------------------
\* Vocabulary of the properties

Blank(t) == \A i \in 1..Len(t) : IsSpace(t[i])
Count(seq, x) == Cardinality({i \in 1..Len(seq) : seq[i] = x})
Labels(sv) == [i \in 1..Len(sv) |-> sv[i][1]]
Pos(s) == CHOOSE i \in 1..Len(SPELLS) : SPELLS[i] = s
InCanonicalOrder(seq) ==
    \A i, j \in 1..Len(seq) : i < j => Pos(seq[i]) < Pos(seq[j])
Reached(s, stage) == \E i \in 1..Len(trail[s]) : trail[s][i] = stage
Failed(s) == attempts[s] >= 1 /\ ~Reached(s, "put")
AllSix == <<"Lumos", "Nox", "Alohomora", "Wingardium Leviosa", "Accio", "Reparo">>

\* C1: a submission whose identity is blank, or that has no recording, is
\* rejected: it runs no normalization, makes no put call, saves nothing, shows
\* an error instead of a report, and leaves the store handle and the store as
\* they were.
Rejectable == Blank(username) \/ audio_files = {}
\* C1, in a state: with rejectable input nothing runs and nothing was done
C1_NothingDone ==
    Rejectable =>
        /\ pc = "idle"
        /\ report.kind \in {"none", "name_error", "empty_error"}
        /\ report.total = 0 /\ report.saved = <<>>
        /\ saved = <<>>
        /\ last_put = None
        /\ \A s \in SpellSet :
              attempts[s] = 0 /\ put_calls[s] = 0 /\ trail[s] = <<>>
\* C1: a rejectable submission does nothing and leaves the handle and the
\* store untouched
C1_Rejected ==
    /\ []C1_NothingDone
    /\ [][Rejectable => UNCHANGED dbVars]_vars
C1_Witness ==
    /\ report.kind = "name_error"
    /\ Cardinality(audio_files) = 1
    /\ MONGO_URI # ""

\* C2: the report of an accepted submission lists every spell exactly once,
\* in the saved list or in the skipped list, both in the order of SPELLS; the
\* total is the length of the saved list; with only Lumos and Nox recorded and
\* both stored it has 2 saved and the other 4 skipped.
C2_ReportPartition ==
    report.kind = "done" =>
        LET lab == Labels(report.saved)
        IN  /\ \A s \in SpellSet : Count(lab, s) + Count(report.skipped, s) = 1
            /\ Len(lab) + Len(report.skipped) = 6
            /\ InCanonicalOrder(lab)
            /\ InCanonicalOrder(report.skipped)
            /\ report.total = Len(report.saved)
            /\ \A i \in 1..Len(report.saved) : report.saved[i][2] >= 1
            /\ \A s \in SpellSet \ audio_files : Count(report.skipped, s) = 1
            /\ (audio_files = {"Lumos", "Nox"} /\ \A s \in audio_files : Reached(s, "put"))
                  => /\ lab = <<"Lumos", "Nox">>
                     /\ report.skipped = <<"Alohomora", "Wingardium Leviosa", "Accio", "Reparo">>
                     /\ report.total = 2
C2_Witness ==
    /\ report.kind = "done"
    /\ audio_files = {"Lumos", "Nox"}
    /\ Len(report.saved) = 2
    /\ Len(report.skipped) = 4

\* C3: a failure at any stage for one spell puts that spell, and no other, in
\* the skipped list; no exception leaves the handler; every spell is
\* classified; and a started submission always reaches its report.
C3_Local ==
    /\ pc # "crashed"
    /\ pc = "loop" => Len(saved) + Len(skipped) = idx - 1
    /\ (pc = "report" \/ report.kind = "done") => Len(saved) + Len(skipped) = 6
    /\ \A s \in SpellSet :
          /\ Failed(s) => Count(skipped, s) = 1 /\ Count(Labels(saved), s) = 0
          /\ Reached(s, "put") => Count(Labels(saved), s) = 1 /\ Count(skipped, s) = 0
\* C3: failures stay local in every state, and a started submission reaches
\* its report
C3_FailureIsLocal ==
    /\ []C3_Local
    /\ (pc = "loop") ~> (pc = "idle" /\ report.kind = "done")
C3_Witness ==
    /\ report.kind = "done"
    /\ \E i, j \in 1..6 :
          /\ i < j
          /\ attempts[SPELLS[i]] = 1 /\ trail[SPELLS[i]] = <<>>
          /\ Reached(SPELLS[j], "put")

\* C4: with no connection string no client is ever constructed, put is never
\* called, nothing is saved, no exception leaves the handler, and a recording
\* that normalizes is reported skipped.
C4_Unconfigured ==
    MONGO_URI = "" =>
        /\ mongo_client = None /\ mongo_fs = None /\ clients_made = 0
        /\ n_stored = 0 /\ last_put = None
        /\ saved = <<>> /\ report.saved = <<>> /\ report.total = 0
        /\ pc # "crashed"
        /\ \A s \in SpellSet :
              /\ put_calls[s] = 0
              /\ Reached(s, "encode") => Count(skipped, s) = 1 /\ ~Reached(s, "store")
        /\ report.kind = "done" => report.skipped = AllSix
C4_Witness ==
    /\ MONGO_URI = ""
    /\ report.kind = "done"
    /\ \E s \in SpellSet : Reached(s, "encode")

\* C5: every object handed to put is a one-channel 16000 Hz 16-bit PCM WAV
\* whose metadata says sample_rate 16000, format "wav" and one of the six
\* spells, whatever the channel count and rate of the recording.
C5_Canonical ==
    last_put # None =>
        LET c == last_put[1]
        IN  /\ c.data.container = "RIFF/WAVE"
            /\ c.data.fmt = "PCM"
            /\ c.data.bits = 16
            /\ c.data.channels = 1
            /\ c.data.rate = 16000
            /\ \A i \in 1..Len(c.data.frames) : c.data.frames[i] \in -32768..32767
            /\ c.contentType = "audio/wav"
            /\ c.metadata.sample_rate = 16000
            /\ c.metadata.format = "wav"
            /\ c.metadata.spell \in SpellSet
C5_Witness ==
    /\ last_put # None
    /\ last_src = Some([channels |-> 2, sr |-> 44100])
    /\ n_stored = 2

\* C9: in one process at most one client is ever constructed.
C9_ClientOnce == clients_made <= 1

\* C10: within a submission every recorded spell is tried exactly once and an
\* unrecorded spell never; put is called at most once per spell and only after
\* decode, normalization and encoding succeeded; put calls never outnumber the
\* recordings; a skipped spell is not tried again.
PutTotal == SumSeq([i \in 1..6 |-> put_calls[SPELLS[i]]])
Classified(s) == Count(Labels(saved), s) + Count(skipped, s) >= 1
\* C10, in a state: one try per recorded spell, put after encoding only
C10_Once ==
    /\ PutTotal <= Cardinality(audio_files)
    /\ \A s \in SpellSet :
          /\ attempts[s] <= 1 /\ put_calls[s] <= attempts[s]
          /\ s \notin audio_files => attempts[s] = 0
          /\ (Classified(s) /\ s \in audio_files) => attempts[s] = 1
          /\ put_calls[s] = 1 =>
                Len(trail[s]) >= 4 /\ SubSeq(trail[s], 1, 4) = <<"decode", "normalize", "encode", "store">>
\* C10: no retry within a submission; a skipped spell stays skipped and is
\* not tried again
C10_NoRetry ==
    /\ []C10_Once
    /\ [][pc = "loop" =>
            \A s \in SpellSet :
                Count(skipped, s) = 1 =>
                    /\ attempts'[s] = attempts[s]
                    /\ put_calls'[s] = put_calls[s]
                    /\ Count(skipped', s) = 1]_vars
C10_Witness ==
    /\ report.kind = "done"
    /\ \E s, t \in SpellSet :
          /\ s # t
          /\ put_calls[s] = 1 /\ Count(skipped, s) = 1
          /\ attempts[t] = 1 /\ put_calls[t] = 0

-----------------------------------------------------------------------------
\* Properties of the pure functions

OutAlphabet ==
    {"a","b","c","d","e","f","g","h","i","j","k","l","m",
     "n","o","p","q","r","s","t","u","v","w","x","y","z",
     "0","1","2","3","4","5","6","7","8","9","_","-"}
IsUpper(c) == \E i \in 1..26 : c = UPPER[i]
\* Characters of t that survive: letters of either case, digits, "_" and "-"
Kept(t) == Cardinality({i \in 1..Len(t) : t[i] \in OutAlphabet \/ IsUpper(t[i])})
\* Runs of whitespace with text on both sides
InnerRuns(t) ==
    Cardinality({i \in 2..Len(t) :
        /\ IsSpace(t[i]) /\ ~IsSpace(t[i - 1])
        /\ \E h \in 1..(i - 1) : ~IsSpace(t[h])
        /\ \E j \in (i + 1)..Len(t) : ~IsSpace(t[j])})

\* C6: sanitize_username returns a non-empty text over [a-z0-9_-]; it is
\* "anon" for None, for the empty text and for a text nothing of which
\* survives; otherwise it has one character per surviving character and one
\* underscore per inner run of whitespace; "Harry Potter" gives
\* "harry_potter" and "a!!b  c" gives "ab_c".
C6_Sanitized ==
    sanitized # None =>
        LET out == sanitized[1]
        IN  /\ Len(out) >= 1
            /\ \A i \in 1..Len(out) : out[i] \in OutAlphabet
            /\ (name = None \/ name = Some(<<>>)) => out = ANON
            /\ name = Some(HarryPotter) => out = harry_potter
            /\ name = Some(ABangBC) => out = ab_c
            /\ name # None =>
                  LET t == name[1]
                  IN  IF Kept(t) + InnerRuns(t) = 0 THEN out = ANON
                      ELSE /\ Len(out) = Kept(t) + InnerRuns(t)
                           /\ Count(out, "_") = Count(t, "_") + InnerRuns(t)
C6_Witness ==
    /\ name = Some(ABangBC)
    /\ sanitized = Some(ab_c)

\* C7: a sample above 1.0 after channel reduction and resampling is quantized
\* to 32767, one below -1.0 to -32767, and every quantized sample lies in
\* [-32767, 32767].
C7_Clamp ==
    n_pcm16 # None =>
        LET pre == n_resampled[1].data
            q == n_pcm16[1].data
        IN  /\ Len(q) = Len(pre)
            /\ \A i \in 1..Len(q) :
                  /\ pre[i] > ONE => q[i] = 32767
                  /\ pre[i] < -ONE => q[i] = -32767
                  /\ q[i] >= -32767 /\ q[i] <= 32767
C7_Witness ==
    /\ n_pcm16 # None
    /\ \E i, j \in 1..Len(n_resampled[1].data) :
          /\ n_resampled[1].data[i] > ONE
          /\ n_resampled[1].data[j] < -ONE
          /\ n_pcm16[1].data[i] = 32767
          /\ n_pcm16[1].data[j] = -32767

\* C8: at 16000 Hz resample_to_target returns its input and makes no
\* resample_poly call; at any other rate R it calls resample_poly with
\* positive coprime factors up and down such that up * R = down * 16000.
Coprime(a, b) ==
    \A d \in 2..(IF a < b THEN a ELSE b) : ~(a % d = 0 /\ b % d = 0)
\* C8: no call at 16000 Hz, else coprime factors with up * R = down * 16000
C8_Factors ==
    n_resampled # None =>
        IF n_sr = 16000
        THEN n_poly = None /\ n_resampled = n_mono
        ELSE /\ n_poly # None
             /\ n_poly[1].up >= 1 /\ n_poly[1].down >= 1
             /\ n_poly[1].up * n_sr = n_poly[1].down * 16000
             /\ Coprime(n_poly[1].up, n_poly[1].down)
C8_Witness ==
    /\ n_resampled # None
    /\ n_sr = 44100
    /\ n_poly = Some([up |-> 160, down |-> 441])

====
